---- MODULE Spec2Model ----
(***************************************************************************)
(* Capture / silence-detection / transcription pipeline of the             *)
(* speech-to-text tool: MainWindow (the controller, on the UI thread),     *)
(* AudioRecorder, TranscriptionService, the capture worker threads and the *)
(* transcription worker threads.                                           *)
(*                                                                         *)
(* The UI thread runs one handler at a time (ui_pc = "loop" between        *)
(* handlers); the worker threads interleave with it at the granularity of  *)
(* the statements that read or write shared state.  A signal emitted on    *)
(* the UI thread is delivered by a direct call inside the emitting         *)
(* handler; a signal emitted by a worker thread is queued and delivered    *)
(* later by the UI thread's event loop (deliver_queued).                   *)
(***************************************************************************)
EXTENDS Integers, Sequences, FiniteSets, TLC

\* ------------------------------------------------------------------ bounds
MaxSessions == 2      \* capture workers started in one run
MaxFrames == 2        \* blocks appended to the frame buffer per session
MaxTextLen == 3       \* characters of an error text or a response text

\* ------------------------------------------------- configuration constants
SilenceDuration == 1  \* recorder.silence_duration, seconds (spin box minimum)

\* the values the duration spin box is set to
SilenceDurations == {SilenceDuration, SilenceDuration + 1}

Sessions == 1..MaxSessions
NoPath == -1          \* temp_file = None / audio_file = None
Blocks == {"loud", "quiet"}

VARIABLES
    \* MainWindow
    is_recording, is_processing, recording_thread, transcription_thread,
    silence_timer, ui_pc, queue, text_edit,
    \* AudioRecorder
    rec_is_recording, rec_stream, rec_frames, rec_temp_file,
    rec_silent_for, rec_silence_detected, rec_silence_duration,
    \* TranscriptionService
    model_name, mode,
    \* environment: the temp store, and whether it refuses a deletion in this run
    files, remove_raises,
    \* capture worker threads, one per start_recording
    wpc,
    \* transcription worker threads, one per start_transcription
    tpc, taudio,
    \* history: the command last invoked and the events of the current attempt
    cmd, silence_emits, rec_stop_calls, tc_emits,
    \* history: the outcome of the remote call of an attempt and the string
    \* transcribe_audio returned for it, the check box as each capture worker
    \* read it, the last set_model / set_mode call and how it ended
    api, returned, monitor, set_call, set_error,
    \* a call of one function studied by itself: its arguments with the state of
    \* the service it reads, and what it returned or sent
    call_args, call_result

mwVars == <<is_recording, is_processing, recording_thread, transcription_thread,
            silence_timer, ui_pc, queue, text_edit>>
recVars == <<rec_is_recording, rec_stream, rec_frames, rec_temp_file,
             rec_silent_for, rec_silence_detected, rec_silence_duration>>
tsVars == <<model_name, mode>>
envVars == <<files, remove_raises>>
wVars == <<wpc>>
tVars == <<tpc, taudio>>
histVars == <<cmd, silence_emits, rec_stop_calls, tc_emits>>
obsVars == <<api, returned, monitor, set_call, set_error, call_args, call_result>>
progVars == <<mwVars, recVars, envVars, wVars, tVars>>
vars == <<mwVars, recVars, tsVars, envVars, wVars, tVars, histVars, obsVars>>

\* ------------------------------------------------------------ text helpers
\* Texts are sequences of characters; a fixed phrase that nothing else
\* overlaps is one character.
ErrPrefix == "ErrPrefix"   \* "文字起こし中にエラーが発生しました"
MsgOverloaded == <<"MsgOverloaded">>
MsgRateLimited == <<"MsgRateLimited">>
MsgUnauthorized == <<"MsgUnauthorized">>
MsgEmpty == <<"MsgEmpty">>
Space == "sp"

Contains(s, c) == \E i \in 1..Len(s) : s[i] = c

startswith(s, c) == Len(s) > 0 /\ s[1] = c

\* str.replace(pat, ""): leftmost, non-overlapping occurrences
RECURSIVE replace(_, _)
replace(s, pat) ==
    IF Len(s) < Len(pat) THEN s
    ELSE IF SubSeq(s, 1, Len(pat)) = pat
         THEN replace(SubSeq(s, Len(pat) + 1, Len(s)), pat)
         ELSE <<Head(s)>> \o replace(Tail(s), pat)

\* str.strip() for the half-width space
RECURSIVE lstrip(_)
lstrip(s) == IF Len(s) > 0 /\ Head(s) = Space THEN lstrip(Tail(s)) ELSE s

RECURSIVE rstrip(_)
rstrip(s) ==
    IF Len(s) > 0 /\ s[Len(s)] = Space THEN rstrip(SubSeq(s, 1, Len(s) - 1)) ELSE s

strip(s) == rstrip(lstrip(s))

fillers == << <<"e", "-", "to">>, <<"a", "-">>, <<"n", "-">>, <<"e", "tsu", "to">>,
              <<"ma", "xa">>, <<"a", "no", "-">>, <<"so", "no">>, <<"na", "n", "ka">> >>

RECURSIVE cleanup_from(_, _)
cleanup_from(text, i) ==
    IF i > Len(fillers) THEN text
    ELSE cleanup_from(replace(replace(text, fillers[i] \o <<Space>>), fillers[i]), i + 1)

cleanup_text(text) == replace(cleanup_from(text, 1), <<Space>>)

\* ------------------------------------------------------ the remote engine
\* What generate_content can do: return a response text or raise an error.
SampleTexts == { <<"so", "no", "sp", "x">> }
SampleErrors == { <<"503", "overloaded">>, <<"503">> }
ApiOutcomes == [raised : {FALSE}, text : SampleTexts] \cup [raised : {TRUE}, text : SampleErrors]

\* transcribe_audio with the test for "429" ahead of the one for "503"
transcribe_audio_429_first(a) ==
    IF a.raised
    THEN IF Contains(a.text, "429") THEN MsgRateLimited
         ELSE IF Contains(a.text, "503") /\ Contains(a.text, "overloaded") THEN MsgOverloaded
         ELSE IF Contains(a.text, "401") THEN MsgUnauthorized
         ELSE <<ErrPrefix>> \o a.text
    ELSE IF a.text # <<>> THEN cleanup_text(strip(a.text))
         ELSE MsgEmpty

\* transcribe_audio after the clip has been read: the returned string
transcribe_audio(a) ==
    IF a.raised
    THEN IF Contains(a.text, "503") /\ Contains(a.text, "overloaded") THEN MsgOverloaded
         ELSE IF Contains(a.text, "429") THEN MsgRateLimited
         ELSE IF Contains(a.text, "401") THEN MsgUnauthorized
         ELSE <<ErrPrefix>> \o a.text
    ELSE IF a.text # <<>> THEN cleanup_text(strip(a.text))
         ELSE MsgEmpty

\* the strings transcribe_audio returns over the outcomes of the remote call
TranscribeResults == {transcribe_audio(a) : a \in ApiOutcomes}

\* the outcomes of the remote call over which the classification of
\* transcribe_audio is checked: every error text and every response text of
\* at most MaxTextLen characters
ErrorChars == {"503", "overloaded", "429", "401", "x"}
TextChars == {"x", Space}
SeqsUpTo(S, n) == UNION {[1..k -> S] : k \in 0..n}
AllApiOutcomes ==
    [raised : {TRUE}, text : SeqsUpTo(ErrorChars, MaxTextLen)]
        \cup [raised : {FALSE}, text : SeqsUpTo(TextChars, MaxTextLen)]

\* transcribe_audio over AllApiOutcomes, as pairs of outcome and returned string
TranscribeTable == {<<a, transcribe_audio(a)>> : a \in AllApiOutcomes}

\* no outcome fixed beforehand: the remote call of an attempt may end in any
\* of ApiOutcomes
ApiOff == [raised |-> FALSE, text |-> <<"off">>]

\* ----------------------------------------------- TranscriptionService
AVAILABLE_MODELS ==
    {"gemini-2.5-pro-exp-03-25", "gemini-2.5-flash-preview-04-17", "gemini-2.0-flash",
     "gemini-1.5-pro", "gemini-1.5-flash", "gemini-1.5-flash-8b"}

TRANSCRIPTION_MODES == {"clean", "detailed", "smart", "casual"}

\* the defaults of TranscriptionService.__init__
DefaultModel == "gemini-2.5-pro-exp-03-25"
DefaultMode == "clean"

ErrorMessages == {MsgOverloaded, MsgRateLimited, MsgUnauthorized, MsgEmpty}
                     \cup {<<ErrPrefix>> \o e : e \in SampleErrors}

\* ------------------------------------------------------------------- Init
\* the state after MainWindow.__init__, AudioRecorder.__init__
InitProgram ==
    /\ is_recording = FALSE
    /\ is_processing = FALSE
    /\ recording_thread = 0
    /\ transcription_thread = 0
    /\ silence_timer = FALSE
    /\ ui_pc = "loop"
    /\ queue = <<>>
    /\ text_edit = <<>>
    /\ rec_is_recording = FALSE
    /\ rec_stream = FALSE
    /\ rec_frames = <<>>
    /\ rec_temp_file = NoPath
    /\ rec_silent_for = SilenceDuration + 1
    /\ rec_silence_detected = FALSE
    /\ rec_silence_duration = SilenceDuration
    /\ model_name = DefaultModel
    /\ mode = DefaultMode
    /\ files = <<>>
    /\ wpc = [s \in Sessions |-> "none"]
    /\ tpc = [t \in Sessions |-> "none"]
    /\ taudio = [t \in Sessions |-> NoPath]
    /\ silence_emits = 0
    /\ rec_stop_calls = 0
    /\ tc_emits = 0

\* no function is studied by itself
NoCall == call_args = <<"off">> /\ call_result = <<"off">>

\* cmd is the command invoked by the last step; it is recorded in the
\* behaviours of CmdSpec and switched off in those of Spec
\* the history variables of the other specifications, switched off
ObsOff ==
    /\ api = ApiOff
    /\ returned = <<"off">>
    /\ monitor = [s \in Sessions |-> "off"]
    /\ set_call = <<"off", "off">>
    /\ set_error = "off"
    /\ NoCall

\* in the behaviours of Spec every deletion succeeds
Init == InitProgram /\ cmd = "off" /\ ObsOff /\ remove_raises = FALSE

CmdInit == InitProgram /\ cmd = "none" /\ ObsOff /\ remove_raises = FALSE

tag(c) == IF cmd = "off" THEN "off" ELSE c

\* ------------------------------------------------ temp store (os module)
exists(path) == path \in DOMAIN files

remove(path) == [p \in (DOMAIN files) \ {path} |-> files[p]]

\* `try: os.remove(path) except: pass` for a clip that exists: the clip is
\* deleted, or (where the store refuses deletions) os.remove raises, the
\* exception is swallowed and the clip stays
try_remove(path) == IF remove_raises THEN {remove(path), files} ELSE {remove(path)}

write(path, data) == [p \in (DOMAIN files) \cup {path} |-> IF p = path THEN data ELSE files[p]]

\* ---------------------------------------------- MainWindow, on the UI thread
\* what a handler of the UI thread leaves alone unless it says otherwise
UiFrame == UNCHANGED <<recording_thread, silence_timer, queue, wVars, remove_raises>>

\* the guard of start_recording with one conjunct lost
CanStartIgnoringProcessing == ~is_recording

\* the guard of start_recording
CanStart == ~is_recording /\ ~is_processing

\* start_recording: the record button / start() command.  The emitted
\* recording_status_changed(True) is delivered directly: update_recording_status
\* writes is_recording and clears text_edit.
start_recording ==
    /\ ui_pc = "loop"
    /\ CanStart => recording_thread < MaxSessions
    /\ cmd' = tag("start")
    /\ UNCHANGED <<tsVars, obsVars>>
    /\ IF CanStart
       THEN /\ is_recording' = TRUE
            /\ text_edit' = <<>>
            /\ recording_thread' = recording_thread + 1
            /\ wpc' = [wpc EXCEPT ![recording_thread + 1] = "start"]
            /\ silence_emits' = 0
            /\ rec_stop_calls' = 0
            /\ UNCHANGED <<is_processing, transcription_thread, silence_timer, ui_pc,
                           queue, recVars, envVars, tVars, tc_emits>>
       ELSE UNCHANGED <<progVars, silence_emits, rec_stop_calls, tc_emits>>

\* stop_recording up to the call of recorder.stop_recording: the flag is
\* cleared and recording_status_changed(False) is delivered directly.
StopBegin ==
    /\ is_recording' = FALSE
    /\ ui_pc' = "stop_call"

\* stop_recording: the stop button / stop() command
stop_recording ==
    /\ ui_pc = "loop"
    /\ cmd' = tag("stop")
    /\ UNCHANGED <<tsVars, obsVars>>
    /\ IF is_recording
       THEN /\ StopBegin
            /\ UNCHANGED <<is_processing, transcription_thread, text_edit, recVars,
                           envVars, tVars, silence_emits, rec_stop_calls, tc_emits>>
            /\ UiFrame
       ELSE UNCHANGED <<progVars, silence_emits, rec_stop_calls, tc_emits>>

\* the test of check_silence with the controller's flag left out
SilenceObservedUnguarded == rec_silence_detected

\* the test of check_silence
SilenceObserved == is_recording /\ rec_silence_detected

\* check_silence, the timeout slot of silence_timer; silence_detected is
\* emitted on the UI thread, so handle_silence_detection runs inside it.
check_silence ==
    /\ ui_pc = "loop"
    /\ silence_timer
    /\ cmd' = tag("none")
    /\ UNCHANGED <<tsVars, obsVars>>
    /\ IF SilenceObserved
       THEN /\ silence_emits' = silence_emits + 1
            /\ IF is_recording
               THEN StopBegin
               ELSE UNCHANGED <<is_recording, ui_pc>>
       ELSE UNCHANGED <<is_recording, ui_pc, silence_emits>>
    /\ UNCHANGED <<is_processing, transcription_thread, text_edit, recVars, envVars,
                   tVars, rec_stop_calls, tc_emits>>
    /\ UiFrame

\* start_transcription that starts the worker and leaves is_processing alone
start_transcription_unmarked(audio_file) ==
    /\ UNCHANGED is_processing
    /\ transcription_thread' = transcription_thread + 1
    /\ tpc' = [tpc EXCEPT ![transcription_thread + 1] = "t_read"]
    /\ taudio' = [taudio EXCEPT ![transcription_thread + 1] = audio_file]
    /\ tc_emits' = 0

\* start_transcription: marks the controller processing and starts the
\* transcription worker on the clip
start_transcription(audio_file) ==
    /\ is_processing' = TRUE
    /\ transcription_thread' = transcription_thread + 1
    /\ tpc' = [tpc EXCEPT ![transcription_thread + 1] = "t_read"]
    /\ taudio' = [taudio EXCEPT ![transcription_thread + 1] = audio_file]
    /\ tc_emits' = 0

\* the test `if audio_file:` of stop_recording, always passing
ClipReturnedAlways(audio_file) == TRUE

\* the test `if audio_file:` of stop_recording
ClipReturned(audio_file) == audio_file # NoPath

\* stop_recording after recorder.stop_recording has returned audio_file
StopReturn(audio_file) ==
    /\ ui_pc' = "loop"
    /\ IF ClipReturned(audio_file)
       THEN start_transcription(audio_file)
       ELSE UNCHANGED <<is_processing, transcription_thread, tVars, tc_emits>>

\* the guard of AudioRecorder.stop_recording left out
NotRecordingNever == FALSE

\* `if not self.is_recording: return None` of AudioRecorder.stop_recording
NotRecording == ~rec_is_recording

\* stop_recording calls recorder.stop_recording.  AudioRecorder.stop_recording
\* up to the deletion of the previous clip: returns None when the recorder is
\* not recording, else marks it inactive and closes the stream.
AudioRecorder_stop_recording ==
    /\ ui_pc = "stop_call"
    /\ cmd' = tag("none")
    /\ UNCHANGED <<tsVars, obsVars>>
    /\ rec_stop_calls' = rec_stop_calls + 1
    /\ IF NotRecording
       THEN /\ StopReturn(NoPath)
            /\ UNCHANGED <<recVars, files>>
       ELSE /\ rec_is_recording' = FALSE
            /\ rec_stream' = FALSE
            /\ IF rec_temp_file # NoPath /\ exists(rec_temp_file)
               THEN files' \in try_remove(rec_temp_file)
               ELSE UNCHANGED files
            /\ ui_pc' = "stop_write"
            /\ UNCHANGED <<rec_frames, rec_temp_file, rec_silent_for,
                           rec_silence_detected, rec_silence_duration, is_processing,
                           transcription_thread, tVars, tc_emits>>
    /\ UNCHANGED <<is_recording, text_edit, silence_emits>>
    /\ UiFrame

\* the path of the clip being written: named by the second of the stop; two
\* stops of one run fall in different seconds, so the name is the session's
timestamp == recording_thread

\* AudioRecorder.stop_recording from the timestamp on: the buffered frames are
\* joined and written to the new path (or the write raises), and
\* stop_recording of MainWindow goes on with the result.
AudioRecorder_stop_recording_write ==
    /\ ui_pc = "stop_write"
    /\ cmd' = tag("none")
    /\ UNCHANGED <<tsVars, obsVars>>
    /\ rec_temp_file' = timestamp
    /\ \E ok \in BOOLEAN :
         IF ok
         THEN /\ files' = write(timestamp, rec_frames)
              /\ StopReturn(timestamp)
         ELSE /\ ui_pc' = "loop"
              /\ UNCHANGED <<files, is_processing, transcription_thread, tVars,
                             tc_emits>>
    /\ UNCHANGED <<is_recording, text_edit, rec_is_recording, rec_stream, rec_frames,
                   rec_silent_for, rec_silence_detected, rec_silence_duration,
                   silence_emits, rec_stop_calls>>
    /\ UiFrame

\* update_silence_settings, the slot of the check box and of the two spin
\* boxes: with the box checked the recorder takes the value of the duration
\* spin box at once, also in the middle of a session
update_silence_settings ==
    /\ ui_pc = "loop"
    /\ cmd' = tag("none")
    /\ \E isChecked \in BOOLEAN, value \in SilenceDurations :
         rec_silence_duration' = IF isChecked THEN value ELSE rec_silence_duration
    /\ UNCHANGED <<mwVars, rec_is_recording, rec_stream, rec_frames, rec_temp_file,
                   rec_silent_for, rec_silence_detected, tsVars, envVars, wVars,
                   tVars, silence_emits, rec_stop_calls, tc_emits, obsVars>>

\* update_recording_status, the slot of recording_status_changed
update_recording_status(flag) ==
    /\ is_recording' = flag
    /\ UNCHANGED text_edit

\* update_transcription, the slot of transcription_complete
update_transcription(text) ==
    /\ text_edit' = text
    /\ UNCHANGED is_recording

\* the event loop of the UI thread delivers the oldest queued signal
deliver_queued ==
    /\ ui_pc = "loop"
    /\ queue # <<>>
    /\ cmd' = tag("none")
    /\ UNCHANGED <<tsVars, obsVars>>
    /\ queue' = Tail(queue)
    /\ IF Head(queue).sig = "recording_status_changed"
       THEN update_recording_status(Head(queue).flag)
       ELSE update_transcription(Head(queue).text)
    /\ UNCHANGED <<is_processing, recording_thread, transcription_thread,
                   silence_timer, ui_pc, recVars, envVars, wVars, tVars,
                   silence_emits, rec_stop_calls, tc_emits>>

\* -------------------------------------------- capture worker of session s
\* what the capture worker leaves alone in every step
WorkerFrame ==
    UNCHANGED <<is_processing, recording_thread, transcription_thread, ui_pc,
                text_edit, tVars, silence_emits, rec_stop_calls, tc_emits,
                tsVars, api, returned, set_call, set_error, remove_raises,
                call_args, call_result>>

\* a signal emitted off the UI thread is queued for the event loop
emit_queued(sig, flag, text) ==
    queue' = Append(queue, [sig |-> sig, flag |-> flag, text |-> text])

\* the guard of AudioRecorder.start_recording left out
AlreadyRecordingNever == FALSE

\* `if self.is_recording: return False` of AudioRecorder.start_recording
AlreadyRecording == rec_is_recording

\* start_recording without `self.frames = []`
frames_kept_at_start == rec_frames

\* `self.frames = []` of start_recording
frames_at_start == <<>>

\* recording_worker calls recorder.start_recording.  AudioRecorder.start_recording
\* up to the opening of the device: rejected when already recording, else the
\* previous clip is deleted and the frame buffer reset.
AudioRecorder_start_recording(s) ==
    /\ wpc[s] = "start"
    /\ cmd' = tag("none")
    /\ UNCHANGED monitor
    /\ IF AlreadyRecording
       THEN /\ wpc' = [wpc EXCEPT ![s] = "not_success"]
            /\ UNCHANGED <<rec_temp_file, rec_frames, files>>
       ELSE /\ wpc' = [wpc EXCEPT ![s] = "open"]
            /\ IF rec_temp_file # NoPath /\ exists(rec_temp_file)
               THEN files' \in try_remove(rec_temp_file) /\ rec_temp_file' = NoPath
               ELSE UNCHANGED <<files, rec_temp_file>>
            /\ rec_frames' = frames_at_start
    /\ UNCHANGED <<is_recording, silence_timer, queue, rec_is_recording, rec_stream,
                   rec_silent_for, rec_silence_detected, rec_silence_duration>>
    /\ WorkerFrame

\* recording_worker starts silence_timer when the check box is checked; the
\* user sets the check box at will, so its value is an input read here.  The
\* timer lives on the UI thread and is started from the worker thread: the
\* call takes effect or is refused.
start_timer(s) ==
    \E isChecked \in BOOLEAN :
      /\ monitor' = [monitor EXCEPT ![s] = IF monitor[s] = "off" THEN "off"
                                           ELSE IF isChecked THEN "checked"
                                           ELSE "unchecked"]
      /\ IF isChecked
         THEN \E effect \in BOOLEAN : silence_timer' = (silence_timer \/ effect)
         ELSE UNCHANGED silence_timer

\* AudioRecorder.start_recording from audio.open on: the device opens and the
\* session is marked active, or audio.open raises into recording_worker; on
\* success recording_worker goes on to start the silence timer
AudioRecorder_start_recording_open(s) ==
    /\ wpc[s] = "open"
    /\ cmd' = tag("none")
    /\ \E ok \in BOOLEAN :
         IF ok
         THEN /\ rec_stream' = TRUE
              /\ rec_is_recording' = TRUE
              /\ rec_silent_for' = 0
              /\ rec_silence_detected' = FALSE
              /\ start_timer(s)
              /\ wpc' = [wpc EXCEPT ![s] = "loop"]
         ELSE /\ wpc' = [wpc EXCEPT ![s] = "open_raised"]
              /\ UNCHANGED <<rec_stream, rec_is_recording, rec_silent_for,
                             rec_silence_detected, silence_timer, monitor>>
    /\ UNCHANGED <<is_recording, queue, rec_frames, rec_temp_file,
                   rec_silence_duration, files>>
    /\ WorkerFrame

\* recording_worker, `if not success`: the worker clears the controller's
\* flag and emits recording_status_changed(False)
recording_worker_not_success(s) ==
    /\ wpc[s] = "not_success"
    /\ cmd' = tag("none")
    /\ UNCHANGED monitor
    /\ is_recording' = FALSE
    /\ emit_queued("recording_status_changed", FALSE, <<>>)
    /\ wpc' = [wpc EXCEPT ![s] = "finally"]
    /\ UNCHANGED <<silence_timer, recVars, files>>
    /\ WorkerFrame

\* recording_worker, `while self.is_recording`, and record_frame up to the
\* device read, `if self.is_recording and self.stream`
recording_worker_loop(s) ==
    /\ wpc[s] = "loop"
    /\ cmd' = tag("none")
    /\ UNCHANGED monitor
    /\ wpc' = [wpc EXCEPT ![s] = IF ~is_recording THEN "finally"
                                  ELSE IF rec_is_recording /\ rec_stream
                                       THEN "rf_read" ELSE "loop"]
    /\ UNCHANGED <<is_recording, silence_timer, queue, recVars, files>>
    /\ WorkerFrame

\* record_frame, `self.stream.read(self.chunk)`: the worker gets one block
\* from the device (its samples are drawn in record_frame), or an exception
\* when the stream has been closed in the meantime
record_frame_read(s) ==
    /\ wpc[s] = "rf_read"
    /\ cmd' = tag("none")
    /\ UNCHANGED monitor
    /\ IF rec_stream
       THEN /\ Len(rec_frames) < MaxFrames
            /\ wpc' = [wpc EXCEPT ![s] = "rf_store"]
       ELSE wpc' = [wpc EXCEPT ![s] = "read_raised"]
    /\ UNCHANGED <<is_recording, silence_timer, queue, recVars, files>>
    /\ WorkerFrame

\* the test of record_frame with every block taken for a quiet one
IsLoudNever(data) == FALSE

\* normalized_rms > self.silence_threshold
IsLoud(data) == data = "loud"

Min(a, b) == IF a < b THEN a ELSE b

\* record_frame after the read: the block is appended and the silence state
\* updated.  rec_silent_for is time.time() - last_sound_time as of the last
\* reading of the clock, kept up to the first value that exceeds
\* silence_duration; dt is the time gone by since that reading (none, or
\* more than silence_duration).
record_frame(s) ==
    /\ wpc[s] = "rf_store"
    /\ cmd' = tag("none")
    /\ UNCHANGED monitor
    /\ \E data \in Blocks, dt \in {0, rec_silence_duration + 1} :
         LET elapsed == Min(rec_silent_for + dt, rec_silence_duration + 1) IN
         /\ rec_frames' = Append(rec_frames, data)
         /\ IF IsLoud(data)
            THEN rec_silent_for' = 0 /\ rec_silence_detected' = FALSE
            ELSE /\ rec_silence_detected' =
                       IF elapsed > rec_silence_duration THEN TRUE
                       ELSE rec_silence_detected
                 /\ rec_silent_for' = elapsed
    /\ wpc' = [wpc EXCEPT ![s] = "loop"]
    /\ UNCHANGED <<is_recording, silence_timer, queue, rec_is_recording, rec_stream,
                   rec_temp_file, rec_silence_duration, files>>
    /\ WorkerFrame

\* recording_worker, `except Exception`
recording_worker_except(s) ==
    /\ wpc[s] \in {"open_raised", "read_raised"}
    /\ cmd' = tag("none")
    /\ UNCHANGED monitor
    /\ is_recording' = FALSE
    /\ emit_queued("recording_status_changed", FALSE, <<>>)
    /\ wpc' = [wpc EXCEPT ![s] = "finally"]
    /\ UNCHANGED <<silence_timer, recVars, files>>
    /\ WorkerFrame

\* recording_worker, `finally`: silence_timer.stop() from the worker thread
\* takes effect or is refused
recording_worker_finally(s) ==
    /\ wpc[s] = "finally"
    /\ cmd' = tag("none")
    /\ UNCHANGED monitor
    /\ \E effect \in BOOLEAN : silence_timer' = (silence_timer /\ ~effect)
    /\ wpc' = [wpc EXCEPT ![s] = "done"]
    /\ UNCHANGED <<is_recording, queue, recVars, files>>
    /\ WorkerFrame

\* ------------------------------------------ transcription worker thread t
TranscriberFrame ==
    UNCHANGED <<is_recording, recording_thread, transcription_thread, silence_timer,
                ui_pc, text_edit, recVars, envVars, wVars, taudio, silence_emits,
                rec_stop_calls, tsVars, api, monitor, set_call, set_error,
                call_args, call_result>>

\* transcribe_audio up to the read of the clip: FileNotFoundError when the
\* clip does not exist
transcription_worker_read(t) ==
    /\ tpc[t] = "t_read"
    /\ cmd' = tag("none")
    /\ UNCHANGED returned
    /\ tpc' = [tpc EXCEPT ![t] = IF taudio[t] # NoPath /\ exists(taudio[t])
                                  THEN "t_call" ELSE "t_except"]
    /\ UNCHANGED <<is_processing, queue, tc_emits>>
    /\ TranscriberFrame

\* what the call of transcribe_audio can return: the string for the outcome
\* fixed for the attempt, or for any outcome of ApiOutcomes
Returned ==
    IF api = ApiOff THEN TranscribeResults
    ELSE {p[2] : p \in {q \in TranscribeTable : q[1] = api}}

\* transcription_worker after the clip was read: the remote call, the
\* classification of its outcome by transcribe_audio, and the branch on the
\* returned string (status and a message box, or transcription_complete)
transcription_worker(t) ==
    /\ tpc[t] = "t_call"
    /\ cmd' = tag("none")
    /\ \E result \in Returned :
         /\ returned' = IF api = ApiOff THEN returned ELSE result
         /\ IF startswith(result, ErrPrefix)
            THEN /\ tpc' = [tpc EXCEPT ![t] = "t_msgbox"]
                 /\ UNCHANGED <<queue, tc_emits>>
            ELSE /\ emit_queued("transcription_complete", FALSE, result)
                 /\ tc_emits' = tc_emits + 1
                 /\ tpc' = [tpc EXCEPT ![t] = "t_finally"]
    /\ UNCHANGED is_processing
    /\ TranscriberFrame

\* transcription_worker with `self.is_processing = False` at the end of the
\* try block instead of in `finally`: an exception skips it
transcription_worker_except_no_finally(t) ==
    /\ tpc[t] = "t_except"
    /\ cmd' = tag("none")
    /\ UNCHANGED returned
    /\ tpc' = [tpc EXCEPT ![t] = "done"]
    /\ UNCHANGED <<is_processing, queue, tc_emits>>
    /\ TranscriberFrame

\* transcription_worker, `except Exception`: status and a message box
transcription_worker_except(t) ==
    /\ tpc[t] = "t_except"
    /\ cmd' = tag("none")
    /\ UNCHANGED returned
    /\ tpc' = [tpc EXCEPT ![t] = "t_msgbox"]
    /\ UNCHANGED <<is_processing, queue, tc_emits>>
    /\ TranscriberFrame

\* QMessageBox.warning returns: the message box of an error has been closed
transcription_worker_msgbox(t) ==
    /\ tpc[t] = "t_msgbox"
    /\ cmd' = tag("none")
    /\ UNCHANGED returned
    /\ tpc' = [tpc EXCEPT ![t] = "t_finally"]
    /\ UNCHANGED <<is_processing, queue, tc_emits>>
    /\ TranscriberFrame

\* transcription_worker, `finally`
transcription_worker_finally(t) ==
    /\ tpc[t] = "t_finally"
    /\ cmd' = tag("none")
    /\ UNCHANGED returned
    /\ is_processing' = FALSE
    /\ tpc' = [tpc EXCEPT ![t] = "done"]
    /\ UNCHANGED <<queue, tc_emits>>
    /\ TranscriberFrame

\* ------------------------------------------------------- specification
CaptureWorker(s) ==
    \/ AudioRecorder_start_recording(s)
    \/ AudioRecorder_start_recording_open(s)
    \/ recording_worker_not_success(s)
    \/ recording_worker_loop(s)
    \/ record_frame_read(s)
    \/ record_frame(s)
    \/ recording_worker_except(s)
    \/ recording_worker_finally(s)

TranscriptionWorker(t) ==
    \/ transcription_worker_read(t)
    \/ transcription_worker(t)
    \/ transcription_worker_except(t)
    \/ transcription_worker_msgbox(t)
    \/ transcription_worker_finally(t)

Next ==
    \/ start_recording
    \/ stop_recording
    \/ AudioRecorder_stop_recording
    \/ AudioRecorder_stop_recording_write
    \/ check_silence
    \/ deliver_queued
    \/ \E s \in Sessions : CaptureWorker(s)
    \/ \E t \in Sessions : TranscriptionWorker(t)

Spec == Init /\ [][Next]_vars

CmdSpec == CmdInit /\ [][Next]_vars

\* the transcription workers are threads the scheduler runs fairly, the
\* remote call returns and a message box is closed
FairSpec == Spec /\ \A t \in Sessions : WF_vars(TranscriptionWorker(t))

\* ------------------------------------- the pipeline with its silence settings
\* the user changes the silence settings at will
SettingsNext == Next \/ update_silence_settings

SettingsSpec == Init /\ [][SettingsNext]_vars

\* ------------------------------------ the pipeline on a store that may refuse
\* os.remove may raise (a clip still held open, a read-only directory)
StoreInit == InitProgram /\ cmd = "off" /\ ObsOff /\ remove_raises = TRUE

StoreSpec == StoreInit /\ [][Next]_vars

\* the check box as each capture worker reads it is recorded
MonitorInit ==
    /\ InitProgram
    /\ cmd = "off"
    /\ api = ApiOff
    /\ returned = <<"off">>
    /\ monitor = [s \in Sessions |-> "none"]
    /\ remove_raises = FALSE
    /\ set_call = <<"off", "off">>
    /\ set_error = "off"
    /\ NoCall

MonitorSpec == MonitorInit /\ [][Next]_vars

\* the worker threads are scheduled, the event loop of the UI thread delivers
\* queued signals and the timeout of a running silence_timer, and a handler
\* of the UI thread that has begun runs to its end
MonitorFairSpec ==
    /\ MonitorSpec
    /\ \A s \in Sessions : WF_vars(CaptureWorker(s))
    /\ \A t \in Sessions : WF_vars(TranscriptionWorker(t))
    /\ WF_vars(check_silence)
    /\ WF_vars(deliver_queued)
    /\ WF_vars(AudioRecorder_stop_recording)
    /\ WF_vars(AudioRecorder_stop_recording_write)

\* ------------------------------------ the model and mode of the service
\* what the settings file can hold under "model" and "transcription_mode":
\* a listed value, the default of Settings ("gemini-2.0-pro", which is not
\* listed), some other text, or nothing
SavedValues ==
    AVAILABLE_MODELS \cup TRANSCRIPTION_MODES \cup {"gemini-2.0-pro", "other", ""}

\* itemData of the combo box entry chosen: a listed value, or None for no entry
ComboModels == AVAILABLE_MODELS \cup {"None"}
ComboModes == TRANSCRIPTION_MODES \cup {"None"}

\* set_model with the membership test left out
ModelRefusedNever(value) == FALSE

\* `if model_name not in self.AVAILABLE_MODELS` of set_model
ModelRefused(value) == value \notin AVAILABLE_MODELS

\* `if mode not in self.TRANSCRIPTION_MODES` of set_mode
ModeRefused(value) == value \notin TRANSCRIPTION_MODES

\* what the steps of this part leave alone
ServiceFrame == UNCHANGED <<mwVars, recVars, envVars, wVars, tVars, histVars, api,
                            returned, monitor, call_args, call_result>>

\* set_model called by `caller`: ValueError for a value that is not listed,
\* else the value becomes the current model
set_model(caller, value) ==
    /\ set_call' = <<caller, "set_model", value>>
    /\ IF ModelRefused(value)
       THEN set_error' = "ValueError" /\ UNCHANGED model_name
       ELSE set_error' = "none" /\ model_name' = value
    /\ UNCHANGED mode

\* set_mode called by `caller`
set_mode(caller, value) ==
    /\ set_call' = <<caller, "set_mode", value>>
    /\ IF ModeRefused(value)
       THEN set_error' = "ValueError" /\ UNCHANGED mode
       ELSE set_error' = "none" /\ mode' = value
    /\ UNCHANGED model_name

\* load_settings, the saved model: restored through set_model when there is
\* one, a ValueError is passed over
load_settings_model ==
    /\ set_call[1] = "__init__"
    /\ \E saved_model \in SavedValues :
         IF saved_model # ""
         THEN set_model("load_settings_model", saved_model)
         ELSE /\ set_call' = <<"load_settings_model", "none", saved_model>>
              /\ UNCHANGED <<model_name, mode, set_error>>
    /\ ServiceFrame

\* load_settings, the saved mode
load_settings_mode ==
    /\ set_call[1] = "load_settings_model"
    /\ \E saved_mode \in SavedValues :
         IF saved_mode # ""
         THEN set_mode("load_settings_mode", saved_mode)
         ELSE /\ set_call' = <<"load_settings_mode", "none", saved_mode>>
              /\ UNCHANGED <<model_name, mode, set_error>>
    /\ ServiceFrame

\* the window is up: load_settings has run
WindowShown == set_call[1] \in {"load_settings_mode", "change_model", "change_mode"}

\* change_model, the slot of the model combo box
change_model ==
    /\ WindowShown
    /\ \E value \in ComboModels : set_model("change_model", value)
    /\ ServiceFrame

\* change_mode, the slot of the mode combo box
change_mode ==
    /\ WindowShown
    /\ \E value \in ComboModes : set_mode("change_mode", value)
    /\ ServiceFrame

\* the state after TranscriptionService.__init__, whose last call is
\* set_mode(mode) with the default
ServiceInit ==
    /\ InitProgram
    /\ cmd = "off"
    /\ api = ApiOff
    /\ returned = <<"off">>
    /\ monitor = [s \in Sessions |-> "off"]
    /\ set_call = <<"__init__", "set_mode", DefaultMode>>
    /\ set_error = "none"
    /\ NoCall
    /\ remove_raises = FALSE

ServiceNext ==
    \/ load_settings_model
    \/ load_settings_mode
    \/ change_model
    \/ change_mode

ServiceSpec == ServiceInit /\ [][ServiceNext]_vars

\* ---------------------------------- one transcription attempt, classified
\* The state in which stop_recording has started the transcription worker of
\* the first clip: one session was captured and stopped, its clip written,
\* and its capture worker has ended.
AttemptStarted ==
    /\ is_recording = FALSE
    /\ is_processing = TRUE
    /\ recording_thread = 1
    /\ transcription_thread = 1
    /\ silence_timer = FALSE
    /\ ui_pc = "loop"
    /\ queue = <<>>
    /\ text_edit = <<>>
    /\ rec_is_recording = FALSE
    /\ rec_stream = FALSE
    /\ rec_frames = <<"loud">>
    /\ rec_temp_file = 1
    /\ rec_silent_for = 0
    /\ rec_silence_detected = FALSE
    /\ rec_silence_duration = SilenceDuration
    /\ model_name = DefaultModel
    /\ mode = DefaultMode
    /\ files = <<>> @@ (1 :> <<"loud">>)
    /\ remove_raises = FALSE
    /\ wpc = [s \in Sessions |-> IF s = 1 THEN "done" ELSE "none"]
    /\ tpc = [t \in Sessions |-> IF t = 1 THEN "t_read" ELSE "none"]
    /\ taudio = [t \in Sessions |-> IF t = 1 THEN 1 ELSE NoPath]
    /\ silence_emits = 0
    /\ rec_stop_calls = 1
    /\ tc_emits = 0

\* the attempt with the outcome of its remote call fixed beforehand
ClassifyInit ==
    /\ AttemptStarted
    /\ cmd = "off"
    /\ api \in AllApiOutcomes
    /\ returned = <<"none">>
    /\ monitor = [s \in Sessions |-> "off"]
    /\ set_call = <<"off", "off">>
    /\ set_error = "off"
    /\ NoCall

ClassifyWorker(t) ==
    \/ transcription_worker_read(t)
    \/ transcription_worker(t)
    \/ transcription_worker_msgbox(t)
    \/ transcription_worker_finally(t)

ClassifyNext ==
    \/ \E t \in Sessions : ClassifyWorker(t)
    \/ deliver_queued

\* the transcription worker is a thread the scheduler runs
ClassifySpec ==
    ClassifyInit /\ [][ClassifyNext]_vars /\ \A t \in Sessions : WF_vars(ClassifyWorker(t))

\* ------------------------------------------------ functions by themselves
\* the pipeline at rest while one function is studied by itself
AtRest ==
    /\ InitProgram
    /\ cmd = "off"
    /\ api = ApiOff
    /\ returned = <<"off">>
    /\ monitor = [s \in Sessions |-> "off"]
    /\ set_call = <<"off", "off">>
    /\ set_error = "off"
    /\ remove_raises = FALSE

\* what the call of a function studied by itself leaves alone
CallFrame == UNCHANGED <<mwVars, recVars, tsVars, envVars, wVars, tVars, histVars, api,
                         returned, monitor, set_call, set_error>>

\* ------------------------------------------ record_frame, the level of a block
\* the samples a block is made of in the study of the level (int16 values)
Samples == {-16384, -256, -200, -182, -1, 0, 1, 181, 182, 256, 328, 1000, 16384}
MaxBlockLen == 2
SampleBlocks == SeqsUpTo(Samples, MaxBlockLen) \ {<<>>}

\* silence_threshold in thousandths (the spin box has three decimals); 10 is
\* the default 0.01
ThresholdsMilli == {1, 5, 10}

\* an int16 result: the value modulo 2^16, in -32768..32767
wrap16(x) == ((x + 32768) % 65536) - 32768

RECURSIVE SumOf(_)
SumOf(q) == IF q = <<>> THEN 0 ELSE Head(q) + SumOf(Tail(q))

\* `audio_data**2` on an int16 array: each square is an int16 again
squares(audio_data) == [i \in 1..Len(audio_data) |-> wrap16(audio_data[i] * audio_data[i])]

\* floor(n * (th/1000 * 32768)^2), with 32768^2 / 10^6 = 1073.741824
LevelBound(n, th) == n * th * th * 1073 + (n * th * th * 741824) \div 1000000

\* sqrt(sum/n) / 32768 > th/1000 for a sum of n squares; false for a
\* negative sum, whose root is nan
Above(sum, n, th) == sum >= 0 /\ sum > LevelBound(n, th)

\* the level test of record_frame on one block: np.mean accumulates the
\* int16 squares in float64, np.sqrt of a negative mean is nan, and a
\* comparison with nan is false
level(audio_data, th) ==
    [sum |-> SumOf(squares(audio_data)),
     nan |-> SumOf(squares(audio_data)) < 0,
     loud |-> Above(SumOf(squares(audio_data)), Len(audio_data), th)]

\* a block and a threshold are given, the level is not computed yet
LevelInit ==
    /\ AtRest
    /\ call_args \in {<<b, th>> : b \in SampleBlocks, th \in ThresholdsMilli}
    /\ call_result = <<>>

record_frame_level ==
    /\ call_result = <<>>
    /\ call_result' = <<level(call_args[1], call_args[2])>>
    /\ UNCHANGED call_args
    /\ CallFrame

LevelSpec == LevelInit /\ [][record_frame_level]_vars

\* -------------------------------------- DictionaryService, the vocabulary hint
MaxDictLen == 3       \* entries of the dictionary
MaxEntries == 2       \* max_entries of generate_prompt_dictionary (100 in the source)

Priorities == {50, 60}
UsageCounts == {0, 1}
Categories == {1, 2}

\* a DictionaryEntry, by the fields generate_prompt_dictionary reads; an entry
\* is named by its place in get_all_entries()
Entries == [priority : Priorities, usage_count : UsageCounts, category : Categories]

\* get_all_entries() of the dictionaries studied
Dictionaries == SeqsUpTo(Entries, MaxDictLen)

\* (priority, usage_count) of a is not below that of b
KeyGe(a, b) ==
    \/ a.priority > b.priority
    \/ a.priority = b.priority /\ a.usage_count >= b.usage_count

\* all_entries.sort(key=lambda x: (x.priority, x.usage_count), reverse=True) on
\* the first n entries: a stable sort, entries of equal key keep their order
RECURSIVE sorted_first(_, _)
sorted_first(all_entries, n) ==
    IF n = 0 THEN <<>>
    ELSE LET before == sorted_first(all_entries, n - 1)
         IN  SelectSeq(before, LAMBDA j : KeyGe(all_entries[j], all_entries[n]))
             \o <<n>>
             \o SelectSeq(before, LAMBDA j : ~KeyGe(all_entries[j], all_entries[n]))

\* the cut taken without the sort
limited_entries_unsorted(all_entries, max_entries) ==
    [k \in 1..Min(max_entries, Len(all_entries)) |-> k]

\* all_entries[:max_entries] after the sort
limited_entries(all_entries, max_entries) ==
    LET sorted == sorted_first(all_entries, Len(all_entries))
    IN  SubSeq(sorted, 1, Min(max_entries, Len(sorted)))

\* the keys of the dict `categories`, in the order of their insertion
RECURSIVE categories_of(_, _)
categories_of(all_entries, limited) ==
    IF limited = <<>> THEN <<>>
    ELSE LET c == all_entries[Head(limited)].category
         IN  <<c>> \o categories_of(all_entries,
                        SelectSeq(Tail(limited), LAMBDA j : all_entries[j].category # c))

\* the lines of the categories cs: the heading, one line per entry of the
\* category, an empty line
RECURSIVE category_lines(_, _, _)
category_lines(all_entries, limited, cs) ==
    IF cs = <<>> THEN <<>>
    ELSE LET members == SelectSeq(limited, LAMBDA j : all_entries[j].category = Head(cs))
         IN  << <<"category", Head(cs)>> >>
             \o [k \in 1..Len(members) |-> <<"entry", members[k]>>]
             \o << <<"", 0>> >>
             \o category_lines(all_entries, limited, Tail(cs))

\* generate_prompt_dictionary: the text as its lines, <<>> for ""
generate_prompt_dictionary(enabled, all_entries, max_entries) ==
    IF ~enabled \/ all_entries = <<>> THEN <<>>
    ELSE LET limited == limited_entries(all_entries, max_entries)
         IN  << <<"header", 0>>, <<"", 0>> >>
             \o category_lines(all_entries, limited, categories_of(all_entries, limited))

\* ------------------------------------- transcribe_audio, the instruction sent
\* the modes in the order of TRANSCRIPTION_MODES
ModeOrder == <<"clean", "detailed", "smart", "casual">>

\* TRANSCRIPTION_MODES[mode]['prompt'], one line named by the mode's place
base_prompt(m) == << <<"prompt", CHOOSE i \in 1..Len(ModeOrder) : ModeOrder[i] = m>> >>

\* the instruction built with the hint after the mode's text
prompt_hint_last(dictionary_prompt, m) ==
    IF dictionary_prompt # <<>>
    THEN base_prompt(m) \o << <<"", 0>> >> \o dictionary_prompt
    ELSE base_prompt(m)

\* prompt = dictionary_prompt + "\n" + base_prompt, or base_prompt alone
prompt_of(dictionary_prompt, m) ==
    IF dictionary_prompt # <<>>
    THEN dictionary_prompt \o << <<"", 0>> >> \o base_prompt(m)
    ELSE base_prompt(m)

\* the dictionary and the mode at the call of transcribe_audio
PromptInit ==
    /\ AtRest
    /\ call_args \in [enabled : BOOLEAN, all_entries : Dictionaries,
                       mode : TRANSCRIPTION_MODES]
    /\ call_result = <<>>

\* transcribe_audio, `dictionary_prompt = ...generate_prompt_dictionary()`
transcribe_audio_hint ==
    /\ Len(call_result) = 0
    /\ call_result' = <<generate_prompt_dictionary(call_args.enabled,
                                                   call_args.all_entries, MaxEntries)>>
    /\ UNCHANGED call_args
    /\ CallFrame

\* transcribe_audio, the prompt passed to generate_content
transcribe_audio_prompt ==
    /\ Len(call_result) = 1
    /\ call_result' = <<call_result[1], prompt_of(call_result[1], call_args.mode)>>
    /\ UNCHANGED call_args
    /\ CallFrame

PromptNext == transcribe_audio_hint \/ transcribe_audio_prompt

PromptSpec == PromptInit /\ [][PromptNext]_vars

\* ------------------------------------------ cleanup_text, the post-processing
\* the characters of the response texts studied: those of the fillers
\* えーと, あー, んー, the half-width space and one other character
CleanupChars == {"e", "-", "to", "a", "n", Space, "x"}

\* a response text is given, cleanup_text has not run yet
CleanupInit ==
    /\ AtRest
    /\ call_args \in SeqsUpTo(CleanupChars, MaxTextLen)
    /\ call_result = <<>>

cleanup_text_call ==
    /\ Len(call_result) = 0
    /\ call_result' = <<cleanup_text(call_args)>>
    /\ UNCHANGED call_args
    /\ CallFrame

CleanupSpec == CleanupInit /\ [][cleanup_text_call]_vars

\* cleanup_text applied to the text it returned
cleanup_text_again ==
    /\ Len(call_result) = 1
    /\ call_result' = Append(call_result, cleanup_text(call_result[1]))
    /\ UNCHANGED call_args
    /\ CallFrame

CleanupTwiceNext == cleanup_text_call \/ cleanup_text_again

CleanupTwiceSpec == CleanupInit /\ [][CleanupTwiceNext]_vars

\* ------------------------------- transcribe_audio, one call after another
Max(a, b) == IF a > b THEN a ELSE b

\* PriorityManager.calculate_auto_priority, the two bonuses of the display
\* given: 10 for a common name, max(0, 5 - len(display))
calculate_auto_priority(common_bonus, length_bonus, usage_count) ==
    Max(1, Min(100, 50 + Min(usage_count * 3, 30) + common_bonus + length_bonus))

\* update_entry_usage on one entry; the displays studied are no common names
\* and have five characters or more
update_entry_usage(entry) ==
    [entry EXCEPT !.usage_count = @ + 1,
                  !.priority = calculate_auto_priority(0, 0, entry.usage_count + 1)]

\* _update_dictionary_usage: `used` are the entries whose display occurs in
\* the text returned
update_dictionary_usage(enabled, all_entries, used) ==
    IF ~enabled THEN all_entries
    ELSE [j \in 1..Len(all_entries) |->
            IF j \in used THEN update_entry_usage(all_entries[j]) ELSE all_entries[j]]

\* the dictionary and the mode before the first of two calls on the same
\* clip, with the same response of the engine (a text that is not empty)
RepeatInit ==
    /\ AtRest
    /\ call_args \in {a \in [enabled : BOOLEAN, all_entries : Dictionaries,
                              mode : {DefaultMode}, used : SUBSET (1..MaxDictLen)] :
                         a.used \subseteq 1..Len(a.all_entries)}
    /\ call_result = <<>>

\* one call of transcribe_audio: the prompt it sends is recorded, and the
\* usage of the dictionary is updated from the text it returns
transcribe_audio_call ==
    /\ Len(call_result) < 2
    /\ call_result' = Append(call_result,
                             prompt_of(generate_prompt_dictionary(call_args.enabled,
                                           call_args.all_entries, MaxEntries),
                                       call_args.mode))
    /\ call_args' = [call_args EXCEPT !.all_entries =
                        update_dictionary_usage(call_args.enabled, call_args.all_entries,
                                                call_args.used)]
    /\ CallFrame

RepeatSpec == RepeatInit /\ [][transcribe_audio_call]_vars

\* ------------------------------ transcribe_audio, the text of each mode
\* the current mode and the response text of the engine
ResponseInit ==
    /\ AtRest
    /\ call_args \in [mode : TRANSCRIPTION_MODES,
                       text : SeqsUpTo(CleanupChars, MaxTextLen)]
    /\ call_result = <<>>

\* transcribe_audio from the response on: the mode is not read again
transcribe_audio_return ==
    /\ Len(call_result) = 0
    /\ call_result' = <<transcribe_audio([raised |-> FALSE, text |-> call_args.text])>>
    /\ UNCHANGED call_args
    /\ CallFrame

ResponseSpec == ResponseInit /\ [][transcribe_audio_return]_vars

\* ------------------------------- cleanup_old_temp_files, the stale clips
MaxStoreFiles == 3    \* files in the temp directory
Retention == 24       \* timedelta(hours=24)

\* hours: the last modification of a file, and datetime.now() of a pass
Mtimes == {0, 1, 2}
NowValues == {Retention + 1, Retention + 2}

\* a file of the temp directory: whether its name matches
\* speech_to_text_*.wav, and os.path.getmtime; a file is named by its place
StoreFiles == [clip : BOOLEAN, mtime : Mtimes]

\* a file at the cutoff is taken for old as well
OldOrAtCutoff(f, now) == f.clip /\ f.mtime <= now - Retention

\* the files the pass tries to delete: glob matches the name and
\* `file_time < cutoff_time`
Old(f, now) == f.clip /\ f.mtime < now - Retention

\* the files in the directory before the next pass
Present == IF call_result = <<>> THEN 1..Len(call_args)
           ELSE call_result[Len(call_result)].present

\* the clock of the last pass
LastNow == IF call_result = <<>> THEN Retention + 1 ELSE call_result[Len(call_result)].now

\* the temp directory before the first of two passes
ReclaimInit ==
    /\ AtRest
    /\ call_args \in SeqsUpTo(StoreFiles, MaxStoreFiles)
    /\ call_result = <<>>

\* one pass of cleanup_old_temp_files: glob lists the directory or raises
\* into the outer except; os.remove of an old clip deletes it or raises into
\* the inner except, and the loop goes on
cleanup_old_temp_files ==
    /\ Len(call_result) < 2
    /\ \E now \in NowValues, listed \in BOOLEAN :
         /\ now >= LastNow
         /\ LET old == {j \in Present : Old(call_args[j], now)}
            IN  \E failed \in SUBSET old :
                  /\ listed \/ failed = {}
                  /\ call_result' = Append(call_result,
                        [now |-> now, listed |-> listed, failed |-> failed,
                         present |-> IF listed THEN Present \ (old \ failed)
                                     ELSE Present])
    /\ UNCHANGED call_args
    /\ CallFrame

ReclaimSpec == ReclaimInit /\ [][cleanup_old_temp_files]_vars

\* ------------------------------------------------------------ the claims
\* the controller state of the pipeline
Stopping == ui_pc \in {"stop_call", "stop_write"}

PipelineState ==
    IF Stopping THEN "Stopping"
    ELSE IF is_processing THEN "Transcribing"
    ELSE IF is_recording THEN "Capturing"
    ELSE "Idle"

LegalTransitions ==
    { <<"Idle", "Capturing">>, <<"Capturing", "Stopping">>,
      <<"Stopping", "Transcribing">>, <<"Stopping", "Idle">>,
      <<"Transcribing", "Idle">> }

\* C1: when stop_recording of MainWindow is inside recorder.stop_recording,
\* about to join the buffered frames, the capture worker of the session has
\* left its capture loop.
C1_WorkerStoppedBeforeJoin ==
    ui_pc = "stop_write" => wpc[recording_thread] \in {"finally", "done"}

\* C2: every change of the controller state is one of the five legal
\* transitions.
C2_LegalTransitionsOnly ==
    [][PipelineState' # PipelineState
         => <<PipelineState, PipelineState'>> \in LegalTransitions]_vars

\* C3: in one session silence_detected is emitted at most once and
\* recorder.stop_recording is called at most once, and once the signal has
\* been emitted the session is no longer capturing.
C3_SilenceDeliveredOnce ==
    /\ silence_emits <= 1
    /\ rec_stop_calls <= 1
    /\ silence_emits = 1 => ~is_recording

\* C3 witness: a session that the silence signal has stopped
C3_Witness == silence_emits = 1 /\ rec_stop_calls = 1 /\ ui_pc = "loop"

\* C4: no capture worker finds its recorder.start_recording rejected because
\* the recorder is still marked recording.
C4_NextStartNotRejected == \A s \in Sessions : wpc[s] # "not_success"

\* C5: the controller enters Transcribing only out of recorder.stop_recording
\* having written the clip, and the worker started is given that clip.
C5_TranscribingOnlyWithClip ==
    [][(~is_processing /\ is_processing')
         => /\ ui_pc = "stop_write"
            /\ rec_temp_file' # NoPath
            /\ rec_temp_file' \in DOMAIN files'
            /\ files'[rec_temp_file'] = rec_frames
            /\ tpc'[transcription_thread'] = "t_read"
            /\ taudio'[transcription_thread'] = rec_temp_file']_vars

\* C5 witness: Transcribing entered with the written clip
C5_Witness ==
    /\ is_processing
    /\ transcription_thread > 0
    /\ tpc[transcription_thread] = "t_read"
    /\ exists(taudio[transcription_thread])

\* C6: a finished transcription attempt has emitted transcription_complete
\* exactly once.
C6_OneEventPerAttempt ==
    \A t \in Sessions :
      (tpc[t] = "done" /\ t = transcription_thread) => tc_emits = 1

C8_IdleWhenStartFails ==
    \A s \in Sessions :
      (s = recording_thread /\ wpc[s] \in {"not_success", "open_raised"})
        => ~is_recording

\* C9: start() invoked while the controller is not Idle, and stop() invoked
\* while it is not Capturing, change nothing and emit nothing.
C9_ReentrancyNoOp ==
    [][/\ (cmd' = "start" /\ (is_recording \/ is_processing \/ Stopping))
            => UNCHANGED <<progVars, silence_emits, rec_stop_calls, tc_emits>>
       /\ (cmd' = "stop" /\ ~is_recording)
            => UNCHANGED <<progVars, silence_emits, rec_stop_calls, tc_emits>>]_vars

\* C9 witness: start() has been invoked while the controller was Transcribing
C9_Witness == cmd = "start" /\ is_processing /\ ~is_recording

\* C10: the text shown as the transcription result is never the message of a
\* transcription failure.
C10_FailureNotShownAsText == text_edit \notin ErrorMessages

\* the kind of failure a string returned by transcribe_audio stands for
Kind(r) ==
    IF r = MsgOverloaded THEN "ServiceOverloaded"
    ELSE IF r = MsgRateLimited THEN "RateLimited"
    ELSE IF r = MsgUnauthorized THEN "Unauthorized"
    ELSE IF r = MsgEmpty THEN "EmptyResponse"
    ELSE IF startswith(r, ErrPrefix) THEN "Other"
    ELSE "Success"

\* the kind the classification rule assigns to an outcome of the remote call
ClaimedKind(a) ==
    IF a.raised
    THEN IF Contains(a.text, "503") /\ Contains(a.text, "overloaded")
         THEN "ServiceOverloaded"
         ELSE IF Contains(a.text, "429") THEN "RateLimited"
         ELSE IF Contains(a.text, "401") THEN "Unauthorized"
         ELSE "Other"
    ELSE IF a.text = <<>> THEN "EmptyResponse" ELSE "Success"

SessionStarts == \E s \in Sessions : wpc[s] = "start" /\ wpc'[s] = "open"

\* a capture worker's recorder.start_recording opens the device in this step
SessionOpened == \E s \in Sessions : wpc[s] = "open" /\ wpc'[s] = "loop"

\* recorder.stop_recording writes its clip in this step
ClipWritten == ui_pc = "stop_write" /\ files' # files

BlockStored == \E s \in Sessions : wpc[s] = "rf_store" /\ wpc'[s] = "loop"

\* the block stored in this step is above the threshold
LoudStored == BlockStored /\ rec_frames'[Len(rec_frames')] = "loud"

StartCalled == \E s \in Sessions : wpc[s] = "start" /\ wpc'[s] # "start"

\* C15: recorder.start_recording called while the recorder is recording
\* returns False and changes nothing of the recorder (frames, stream,
\* last_sound_time, silence_detected, temp_file) nor any clip file.
C15_StartOnActiveRejected ==
    [][(StartCalled /\ rec_is_recording)
         => /\ \E s \in Sessions : wpc[s] = "start" /\ wpc'[s] = "not_success"
            /\ UNCHANGED <<recVars, files>>]_vars

\* C15 witness: a start rejected while the running session holds a block
C15_Witness ==
    /\ \E s \in Sessions : wpc[s] = "not_success"
    /\ rec_is_recording
    /\ rec_stream
    /\ Len(rec_frames) > 0

\* MainWindow.stop_recording's call of recorder.stop_recording returns, or
\* gets as far as the write of the clip, in this step
StopCalled == ui_pc = "stop_call" /\ ui_pc' # "stop_call"

\* C16: recorder.stop_recording called while the recorder is not recording
\* returns None (no transcription is started) and changes nothing of the
\* recorder nor any clip file.
C16_StopOnInactiveNoEffect ==
    [][(StopCalled /\ ~rec_is_recording)
         => /\ ui_pc' = "loop"
            /\ UNCHANGED <<recVars, files, is_processing, transcription_thread, tVars>>]_vars

\* C16 witness: the stop of the second session has returned None and the
\* clip of the first is still there
C16_Witness ==
    /\ recording_thread = 2
    /\ rec_stop_calls = 1
    /\ ui_pc = "loop"
    /\ rec_temp_file = 1
    /\ exists(1)
    /\ ~is_processing

\* C17: a call of set_model / set_mode with a listed value makes it the
\* current one, a call with any other value ends in an error and leaves the
\* current model and mode as they were; so the current model and mode are
\* always listed ones.
C17_OnlyListedAccepted ==
    /\ [](model_name \in AVAILABLE_MODELS /\ mode \in TRANSCRIPTION_MODES)
    /\ [][(set_call' # set_call /\ set_call'[2] = "set_model")
            => IF set_call'[3] \in AVAILABLE_MODELS
               THEN model_name' = set_call'[3] /\ set_error' = "none" /\ mode' = mode
               ELSE set_error' = "ValueError" /\ UNCHANGED <<model_name, mode>>]_vars
    /\ [][(set_call' # set_call /\ set_call'[2] = "set_mode")
            => IF set_call'[3] \in TRANSCRIPTION_MODES
               THEN mode' = set_call'[3] /\ set_error' = "none" /\ model_name' = model_name
               ELSE set_error' = "ValueError" /\ UNCHANGED <<model_name, mode>>]_vars

\* C17 witness: the model saved by default, which is not listed, has been
\* refused at load and the model is still the one of the constructor
C17_Witness ==
    /\ set_call = <<"load_settings_model", "set_model", "gemini-2.0-pro">>
    /\ set_error = "ValueError"
    /\ model_name = DefaultModel
    /\ mode = DefaultMode

\* C18: record_frame appends a block to the frame buffer only while the
\* recorder is marked recording.
C18_AppendOnlyWhileActive == [][BlockStored => rec_is_recording]_vars

\* C19: no clip exists but the one temp_file names; start_recording, when
\* accepted, leaves no clip behind and forgets the path of the one it deleted;
\* after stop_recording has written a clip it is the only one.
C19_OneCurrentClip ==
    /\ [](DOMAIN files \subseteq {rec_temp_file})
    /\ [][SessionStarts
            => /\ DOMAIN files' = {}
               /\ exists(rec_temp_file) => rec_temp_file' = NoPath]_vars
    /\ [][ClipWritten => DOMAIN files' = {rec_temp_file'}]_vars

\* C20: a session whose capture worker found the silence check box unchecked
\* is never ended by the silence monitor: check_silence emits no
\* silence_detected while that session is the one capturing.
C20_NoMonitorWhenDisabled ==
    [][is_recording /\ silence_emits' = silence_emits + 1
         => monitor[recording_thread] # "unchecked"]_vars

\* a step of a capture worker or of a transcription worker
WorkerStep ==
    \/ \E s \in Sessions : wpc[s] # "none" /\ wpc'[s] # wpc[s]
    \/ \E t \in Sessions : tpc[t] # "none" /\ tpc'[t] # tpc[t]

\* C21: is_recording and is_processing are written by the UI thread only: no
\* step of a capture worker or of a transcription worker changes either.
C21_SingleWriter == [][WorkerStep => UNCHANGED <<is_recording, is_processing>>]_vars

\* the squares as numbers
true_squares(audio_data) == [i \in 1..Len(audio_data) |-> audio_data[i] * audio_data[i]]

\* the block classified as loud by the numbers: sqrt(mean(sample^2)) / 32768
\* above the threshold
TrulyLoud(audio_data, th) == Above(SumOf(true_squares(audio_data)), Len(audio_data), th)

\* C22: the level record_frame computes is a number of [0,1], it is the root
\* of the mean of the squares taken without wrap-around, and a block whose
\* mean square is above the threshold is classified as loud.
C22_LevelIsTrueRms ==
    Len(call_result) = 1
        => /\ ~call_result[1].nan
           /\ call_result[1].sum = SumOf(true_squares(call_args[1]))
           /\ TrulyLoud(call_args[1], call_args[2]) => call_result[1].loud

\* C23: when stop_recording returns the clip, and when an accepted
\* start_recording replaces the session, the recorder holds no frames.
C23_BufferClearedAtEnd ==
    /\ [][ClipWritten => rec_frames' = <<>>]_vars
    /\ [][SessionStarts => rec_frames' = <<>>]_vars

\* C24: the instruction sent is the hint, a newline and the mode's text when
\* the hint is not empty, and the mode's text alone when the hint is empty or
\* the dictionary is disabled.
C24_HintPrepended ==
    Len(call_result) = 2
        => LET hint == call_result[1]
               sent == call_result[2]
               text == base_prompt(call_args.mode)
           IN  /\ hint # <<>>
                    => /\ SubSeq(sent, 1, Len(hint)) = hint
                       /\ sent[Len(hint) + 1] = <<"", 0>>
                       /\ SubSeq(sent, Len(hint) + 2, Len(sent)) = text
               /\ (hint = <<>> \/ ~call_args.enabled) => sent = text

\* a hint of two categories before the text of the detailed mode
C24_Witness ==
    /\ Len(call_result) = 2
    /\ call_args.enabled
    /\ call_args.mode = "detailed"
    /\ Len(call_result[1]) = 8
    /\ Len(call_result[2]) = 10

\* the entries the hint lists, in the order of their lines
Listed(hint) == SelectSeq(hint, LAMBDA line : line[1] = "entry")

\* C25: the hint lists at most max_entries entries, each once, none of them
\* below an entry it leaves out in (priority, usage_count), and as many as the
\* cap allows; it is empty when the dictionary is disabled or has no entries.
C25_HintCapped ==
    Len(call_result) >= 1
        => LET hint == call_result[1]
               all_entries == call_args.all_entries
               ids == {Listed(hint)[k][2] : k \in 1..Len(Listed(hint))}
           IN  IF ~call_args.enabled \/ all_entries = <<>>
               THEN hint = <<>>
               ELSE /\ Len(Listed(hint)) <= MaxEntries
                    /\ ids \subseteq 1..Len(all_entries)
                    /\ Cardinality(ids) = Len(Listed(hint))
                    /\ Cardinality(ids) = Min(MaxEntries, Len(all_entries))
                    /\ \A i \in ids : \A j \in (1..Len(all_entries)) \ ids :
                         KeyGe(all_entries[i], all_entries[j])

\* three entries, the cap two: the lowest entry, which comes first, is left out
C25_Witness ==
    /\ Len(call_result) >= 1
    /\ call_args.enabled
    /\ Len(call_args.all_entries) = MaxEntries + 1
    /\ call_args.all_entries[1].priority < call_args.all_entries[2].priority
    /\ call_args.all_entries[1].priority < call_args.all_entries[3].priority
    /\ Len(Listed(call_result[1])) = MaxEntries

\* pat occurs in s
Occurs(s, pat) ==
    \E i \in 1..(Len(s) - Len(pat) + 1) : SubSeq(s, i, i + Len(pat) - 1) = pat

\* s is t with some characters removed
RECURSIVE IsSubsequence(_, _)
IsSubsequence(s, t) ==
    IF s = <<>> THEN TRUE
    ELSE IF t = <<>> THEN FALSE
    ELSE IF Head(s) = Head(t) THEN IsSubsequence(Tail(s), Tail(t))
    ELSE IsSubsequence(s, Tail(t))

\* C26: the text cleanup_text returns holds no filler of the list and no
\* half-width space, and is the input with characters removed.
C26_NoFillerLeft ==
    Len(call_result) = 1
        => /\ \A k \in 1..Len(fillers) : ~Occurs(call_result[1], fillers[k])
           /\ ~Contains(call_result[1], Space)
           /\ IsSubsequence(call_result[1], call_args)

\* C27: in the mode 'detailed' every filler that occurs in the response of
\* the engine occurs in the text transcribe_audio returns.
C27_DetailedKeepsFillers ==
    Len(call_result) = 1 /\ call_args.mode = "detailed"
        => \A k \in 1..Len(fillers) :
             Occurs(call_args.text, fillers[k]) => Occurs(call_result[1], fillers[k])

\* C28: two calls of transcribe_audio on the same clip, in the same mode and
\* with the same response of the engine send the same prompt.
C28_SameRequestTwice == Len(call_result) = 2 => call_result[1] = call_result[2]

\* the files in the directory before pass k
PresentBefore(k) == IF k = 1 THEN 1..Len(call_args) ELSE call_result[k - 1].present

\* the clips older than the retention window at pass k
OldAt(k) ==
    {j \in PresentBefore(k) :
        call_args[j].clip /\ call_result[k].now - call_args[j].mtime > Retention}

C30_NoOrphanedCapture ==
    ( /\ ~is_recording
      /\ ~is_processing
      /\ ui_pc = "loop"
      /\ \A s \in Sessions : wpc[s] \in {"none", "done"} )
        => ~rec_is_recording /\ ~rec_stream

\* C31: the clip handed to a transcription worker is neither deleted nor
\* overwritten before that worker has read it.
C31_ClipKeptUntilRead ==
    [][\A t \in Sessions :
         (tpc[t] = "t_read" /\ tpc'[t] = "t_read" /\ exists(taudio[t]))
            => /\ taudio[t] \in DOMAIN files'
               /\ files'[taudio[t]] = files[taudio[t]]]_vars

\* the capture workers inside the capture loop: past start_recording and the
\* timer, not yet out of `while self.is_recording`
InLoop == {s \in Sessions : wpc[s] \in {"loop", "rf_read", "rf_store"}}

\* C32: at most one capture worker is in the capture loop, and it is the
\* worker of the current session.
C32_OneWorkerInLoop ==
    /\ Cardinality(InLoop) <= 1
    /\ InLoop \subseteq {recording_thread}

\* C33: no silence_detected is emitted in a session whose capture worker has
\* not yet called AudioRecorder.start_recording: the flag read then was left
\* by an earlier session.
C33_NoStaleSilence ==
    [][(is_recording /\ silence_emits' = silence_emits + 1)
         => wpc[recording_thread] # "start"]_vars

\* C34: the silence timer running in a capturing session whose worker started
\* it with the check box checked is not stopped by the exit path of another
\* session's capture worker.
C34_TimerNotStoppedByOther ==
    [][\A s \in Sessions :
         ( /\ wpc[s] = "finally" /\ wpc'[s] = "done"
           /\ s # recording_thread
           /\ is_recording
           /\ monitor[recording_thread] = "checked"
           /\ silence_timer )
            => silence_timer']_vars

\* the transcription workers that have been started and have not ended
InFlight == {t \in Sessions : tpc[t] \notin {"none", "done"}}

C36_CleanupIdempotent == Len(call_result) = 2 => call_result[2] = call_result[1]

\* ------------------------------------ DictionaryService, the entries kept
\* readings (kana, romanised here) and displays; "YAMADA" stands for the
\* display of two characters that is one of the common names, "Kubernetes"
\* for a display of ten characters that is none
MaxRows == 2
MaxUsage == 1

Readings == {"yamada", "kube"}
Displays == {"YAMADA", "Kubernetes"}
CommonNames == {"YAMADA"}
DisplayLen == [d \in Displays |-> IF d = "YAMADA" THEN 2 ELSE 10]

\* the entries a caller constructs: usage_count is 0 after the constructor
DictionaryEntries ==
    [reading : Readings, display : Displays, priority : Priorities, usage_count : {0}]

\* self.entries, reading -> [entries]
self_entries == call_args.entries

\* PriorityManager._get_common_name_bonus
common_name_bonus(display) == IF display \in CommonNames THEN 10 ELSE 0

\* max(0, 5 - len(display))
length_bonus(display) == Max(0, 5 - DisplayLen[display])

\* list.sort(key=priority, reverse=True): stable, an entry goes after the
\* entries of the same or a higher priority that came before it
insert_by_priority(sorted, e) ==
    LET k == Cardinality({i \in 1..Len(sorted) : sorted[i].priority >= e.priority})
    IN SubSeq(sorted, 1, k) \o <<e>> \o SubSeq(sorted, k + 1, Len(sorted))

\* the list left as it is, where the code sorts it
unsorted(list) == list

RECURSIVE sort_by_priority(_)
sort_by_priority(list) ==
    IF Len(list) = 0 THEN list
    ELSE insert_by_priority(sort_by_priority(SubSeq(list, 1, Len(list) - 1)),
                            list[Len(list)])

\* entries[reading] = list
put(entries, reading, list) ==
    [r \in DOMAIN entries \cup {reading} |-> IF r = reading THEN list ELSE entries[r]]

\* del entries[reading]
del(entries, reading) == [r \in DOMAIN entries \ {reading} |-> entries[r]]

\* an entry of this display is in the list
has_display(list, display) == \E i \in 1..Len(list) : list[i].display = display

\* add_entry: the entries afterwards and the value returned
add_entry(entries, entry) ==
    LET created == IF entry.reading \notin DOMAIN entries
                   THEN put(entries, entry.reading, <<>>)
                   ELSE entries
    IN IF has_display(created[entry.reading], entry.display)
       THEN [entries |-> created, returned |-> FALSE]
       ELSE [entries |-> put(created, entry.reading,
                             sort_by_priority(Append(created[entry.reading], entry))),
             returned |-> TRUE]

\* remove_entry
remove_entry(entries, reading, display) ==
    IF reading \notin DOMAIN entries
    THEN [entries |-> entries, returned |-> FALSE]
    ELSE LET kept == SelectSeq(entries[reading], LAMBDA e : e.display # display)
         IN [entries |-> IF Len(kept) = 0 THEN del(entries, reading)
                         ELSE put(entries, reading, kept),
             returned |-> TRUE]

\* update_entry: the old entry is removed before the new one is added
update_entry(entries, old_reading, old_display, updated_entry) ==
    IF ~(old_reading \in DOMAIN entries /\ has_display(entries[old_reading], old_display))
    THEN add_entry(entries, updated_entry)
    ELSE LET list == entries[old_reading]
             old_entry == list[CHOOSE i \in 1..Len(list) :
                                 /\ list[i].display = old_display
                                 /\ \A j \in 1..(i - 1) : list[j].display # old_display]
         IN add_entry(remove_entry(entries, old_reading, old_display).entries,
                      [updated_entry EXCEPT !.usage_count = old_entry.usage_count])

\* DictionaryService.update_entry_usage: the first entry of the display is
\* updated, then the list of the reading is sorted again
usage_updated(list, display) ==
    [i \in 1..Len(list) |->
       IF list[i].display = display /\ \A j \in 1..(i - 1) : list[j].display # display
       THEN [list[i] EXCEPT
               !.usage_count = @ + 1,
               !.priority = calculate_auto_priority(common_name_bonus(display),
                                                    length_bonus(display),
                                                    list[i].usage_count + 1)]
       ELSE list[i]]

entries_usage_updated(entries, reading, display) ==
    IF reading \notin DOMAIN entries THEN entries
    ELSE put(entries, reading, sort_by_priority(usage_updated(entries[reading], display)))

\* the text of a cell of the file, stripped
stripped(raw) == IF raw = " yamada" THEN "yamada" ELSE raw

\* int(float(text)) of the priority and of the usage count, with the default
\* for an empty cell and for a text that is no number
parse_priority(raw) == IF raw = "60" THEN 60 ELSE 50
parse_usage_count(raw) == IF raw = "1" THEN 1 ELSE 0

\* the rows of a file: reading, display, priority and usage count as text
CsvRows ==
    [reading : Readings, display : Displays,
     priority_raw : {""}, usage_count_raw : {""}]
    \cup {[reading |-> "yamada", display |-> "Kubernetes", priority_raw |-> "60",
           usage_count_raw |-> ""],
          [reading |-> " yamada", display |-> "YAMADA", priority_raw |-> "",
           usage_count_raw |-> ""],
          [reading |-> "kube", display |-> "YAMADA", priority_raw |-> "60",
           usage_count_raw |-> "1"],
          [reading |-> "kube", display |-> "Kubernetes", priority_raw |-> "abc",
           usage_count_raw |-> ""],
          [reading |-> "", display |-> "YAMADA", priority_raw |-> "", usage_count_raw |-> ""],
          [reading |-> "", display |-> "", priority_raw |-> "", usage_count_raw |-> ""]}

CsvFiles == SeqsUpTo(CsvRows, MaxRows)

\* one row of import_from_csv; counts are (success, duplicate, error)
import_row(acc, row) ==
    LET reading == stripped(row.reading)
        display == stripped(row.display)
        entries == acc.entries
        counts == acc.returned
    IN IF row.reading = "" /\ row.display = "" /\ row.priority_raw = ""
          /\ row.usage_count_raw = ""
       THEN acc
       ELSE IF reading = "" \/ display = ""
       THEN [acc EXCEPT !.returned = <<counts[1], counts[2], counts[3] + 1>>]
       ELSE IF reading \in DOMAIN entries /\ has_display(entries[reading], display)
       THEN [acc EXCEPT !.returned = <<counts[1], counts[2] + 1, counts[3]>>]
       ELSE LET entry == [reading |-> reading, display |-> display,
                          priority |-> parse_priority(row.priority_raw),
                          usage_count |-> parse_usage_count(row.usage_count_raw)]
                created == IF reading \notin DOMAIN entries
                           THEN put(entries, reading, <<>>) ELSE entries
            IN [entries |-> put(created, reading,
                                sort_by_priority(Append(created[reading], entry))),
                returned |-> <<counts[1] + 1, counts[2], counts[3]>>]

RECURSIVE import_rows(_, _)
import_rows(acc, rows) ==
    IF Len(rows) = 0 THEN acc
    ELSE import_rows(import_row(acc, rows[1]), SubSeq(rows, 2, Len(rows)))

\* import_from_csv of a file that can be read
import_from_csv(entries, rows) ==
    import_rows([entries |-> entries, returned |-> <<0, 0, 0>>], rows)

\* the dictionary before any entry is added
NoEntries == [r \in {} |-> <<>>]

\* the dictionary is empty after __init__ when no default file is loaded
DictInit ==
    /\ AtRest
    /\ call_args = [entries |-> NoEntries]
    /\ call_result = <<>>

\* the call made last: its name, what it returned, and whether the entries
\* after it differ from the entries before it
Called(op, res) ==
    <<[op |-> op, returned |-> res.returned, changed |-> res.entries # self_entries]>>

add_entry_call ==
    \E entry \in DictionaryEntries :
        LET res == add_entry(self_entries, entry)
        IN /\ call_args' = [entries |-> res.entries]
           /\ call_result' = Called("add_entry", res)
           /\ CallFrame

update_entry_call ==
    \E old_reading \in Readings, old_display \in Displays, updated \in DictionaryEntries :
        LET res == update_entry(self_entries, old_reading, old_display, updated)
        IN /\ call_args' = [entries |-> res.entries]
           /\ call_result' = Called("update_entry", res)
           /\ CallFrame

remove_entry_call ==
    \E reading \in Readings, display \in Displays :
        LET res == remove_entry(self_entries, reading, display)
        IN /\ call_args' = [entries |-> res.entries]
           /\ call_result' = Called("remove_entry", res)
           /\ CallFrame

update_entry_usage_call ==
    \E reading \in Readings, display \in Displays :
        /\ reading \in DOMAIN self_entries =>
              \A i \in 1..Len(self_entries[reading]) :
                 self_entries[reading][i].display = display
                    => self_entries[reading][i].usage_count < MaxUsage
        /\ call_args' = [entries |-> entries_usage_updated(self_entries, reading, display)]
        /\ call_result' = Called("update_entry_usage",
                                 [entries |-> entries_usage_updated(self_entries, reading,
                                                                    display),
                                  returned |-> "None"])
        /\ CallFrame

import_from_csv_call ==
    \E rows \in CsvFiles :
        LET res == import_from_csv(self_entries, rows)
        IN /\ call_args' = [entries |-> res.entries]
           /\ call_result' = Called("import_from_csv", res)
           /\ CallFrame

DictNext ==
    \/ add_entry_call
    \/ update_entry_call
    \/ remove_entry_call
    \/ update_entry_usage_call
    \/ import_from_csv_call

DictSpec == DictInit /\ [][DictNext]_vars

\* C37: a call of update_entry that returns False leaves the entries as they
\* were before the call.
C37_FailedUpdateChangesNothing ==
    \A i \in 1..Len(call_result) :
        (call_result[i].op = "update_entry" /\ call_result[i].returned = FALSE)
           => ~call_result[i].changed

\* the places of the entries kept: a reading and an index of its list
AllEntries ==
    UNION {{<<r, i>> : i \in 1..Len(self_entries[r])} : r \in DOMAIN self_entries}

\* C38: after any sequence of the five operations from the empty dictionary
\* no two entries have the same reading and display, no key has an empty
\* list, and every list is in the order of non-increasing priority.
C38_EntriesWellFormed ==
    /\ \A p, q \in AllEntries :
          ( /\ self_entries[p[1]][p[2]].reading = self_entries[q[1]][q[2]].reading
            /\ self_entries[p[1]][p[2]].display = self_entries[q[1]][q[2]].display )
             => p = q
    /\ \A r \in DOMAIN self_entries : Len(self_entries[r]) > 0
    /\ \A r \in DOMAIN self_entries : \A i \in 1..(Len(self_entries[r]) - 1) :
          self_entries[r][i].priority >= self_entries[r][i + 1].priority

C38_Witness ==
    /\ Len(call_result) = 1
    /\ call_result[1].op = "update_entry_usage"
    /\ DOMAIN self_entries = Readings
    /\ \E r \in Readings :
          /\ Len(self_entries[r]) = 2
          /\ self_entries[r][1].usage_count = 1
          /\ self_entries[r][1].priority = 53
          /\ self_entries[r][2].priority = 50

====
